---- MODULE Spec2Model ----
(***************************************************************************)
(* Model of the BankMark data-quality checker                              *)
(* (src/scripts/quality_checks.py, class BankMarketingQualityChecker).     *)
(*                                                                         *)
(* The warehouse table is the environment: a pandas DataFrame is modelled  *)
(* as a set of column names and a sequence of rows; a cell is an integer,  *)
(* a string or a missing value.  The checker's state is self.results, the  *)
(* list every check appends to.  run() is one atomic action.               *)
(***************************************************************************)
EXTENDS Integers, Sequences, FiniteSets, TLC

VARIABLES table, results, reports, last, runs, pipeline, cloud

vars == <<table, results, reports, last, runs, pipeline, cloud>>

(***************************************************************************)
(* Bounds of the model.                                                    *)
(***************************************************************************)
MaxRows == 2
MaxRuns == 2
MaxOrderRows == 1
MaxIngestRuns == 2

(***************************************************************************)
(* Cells.  k is the kind of the cell: "int", "str" or "null".              *)
(***************************************************************************)
IntV(i) == [k |-> "int", n |-> i, s |-> ""]
StrV(t) == [k |-> "str", n |-> 0, s |-> t]
NullV == [k |-> "null", n |-> 0, s |-> ""]

(***************************************************************************)
(* The columns the modelled tables can carry, and the storage type the     *)
(* ingestion gives each of them when it loads the table.                   *)
(***************************************************************************)
ModelCols == {"age", "duration", "pdays", "previous", "poutcome"}

SchemaDtype(col) ==
  IF col \in {"age", "duration", "campaign", "pdays", "previous"} THEN "int64"
  ELSE IF col \in {"emp.var.rate", "cons.price.idx", "cons.conf.idx",
                   "euribor3m", "nr.employed"} THEN "float64"
  ELSE "object"

(***************************************************************************)
(* The tables of the model.  A row is BaseRow with at most one cell        *)
(* replaced by a boundary, out-of-range, invalid, non-numeric or missing   *)
(* value (Deviations lists the replacements).  A table has a non-empty     *)
(* subset of the columns and up to MaxRows rows; the query has no ORDER    *)
(* BY and no check depends on the order of the rows, so only the tables    *)
(* whose rows come in the order of Deviations are enumerated.              *)
(***************************************************************************)
BaseRow ==
  [age |-> IntV(18), duration |-> IntV(1), pdays |-> IntV(-1),
   previous |-> IntV(0), poutcome |-> StrV("nonexistent")]

Deviations ==
  << <<"age", IntV(17)>>, <<"age", IntV(95)>>, <<"age", IntV(96)>>,
     <<"age", StrV("x")>>,
     <<"duration", IntV(-1)>>, <<"duration", IntV(0)>>,
     <<"duration", IntV(5001)>>, <<"duration", NullV>>,
     <<"pdays", IntV(-2)>>, <<"pdays", IntV(1001)>>,
     <<"previous", IntV(-1)>>, <<"previous", IntV(10)>>,
     <<"previous", IntV(11)>>, <<"previous", NullV>>,
     <<"poutcome", StrV("failure")>>, <<"poutcome", StrV("other")>>,
     <<"poutcome", NullV>> >>

RowAt(d) ==
  IF d = 0 THEN BaseRow
  ELSE [BaseRow EXCEPT ![Deviations[d][1]] = Deviations[d][2]]

RowChoices(n) ==
  {t \in [1..n -> 0..Len(Deviations)] : \A i \in 1..(n-1) : t[i] <= t[i+1]}

RowSeqs ==
  UNION {{[i \in 1..n |-> RowAt(t[i])] : t \in RowChoices(n)} : n \in 0..MaxRows}

Project(row, cols) == [c \in cols |-> row[c]]

Tables ==
  {[columns |-> cs, rows |-> [i \in 1..Len(rs) |-> Project(rs[i], cs)]] :
     cs \in (SUBSET ModelCols) \ {{}}, rs \in RowSeqs}

(***************************************************************************)
(* DataFrame helpers.                                                      *)
(***************************************************************************)
Kinds(df, col) == {df.rows[i][col].k : i \in 1..Len(df.rows)}

\* str(df[col].dtype)
dtype(df, col) ==
  IF Len(df.rows) = 0 THEN SchemaDtype(col)
  ELSE IF "str" \in Kinds(df, col) THEN "object"
  ELSE IF "null" \in Kinds(df, col)
       THEN (IF "int" \in Kinds(df, col) THEN "float64" ELSE SchemaDtype(col))
  ELSE "int64"

\* number of rows selected by a boolean mask
CountRows(df, Mask(_)) == Cardinality({i \in 1..Len(df.rows) : Mask(df.rows[i])})

\* df[col] < n, df[col] > n raise TypeError on an object column that holds
\* a value that is not a number; on a numeric column a missing value (NaN)
\* compares False.
OrderingRaises(df, col) ==
  /\ dtype(df, col) = "object"
  /\ \E i \in 1..Len(df.rows) : df.rows[i][col].k # "int"

Lt(v, n) == v.k = "int" /\ v.n < n
Gt(v, n) == v.k = "int" /\ v.n > n
Le(v, n) == v.k = "int" /\ v.n <= n
Ge(v, n) == v.k = "int" /\ v.n >= n
EqInt(v, n) == v.k = "int" /\ v.n = n
NeStr(v, t) == ~(v.k = "str" /\ v.s = t)

(***************************************************************************)
(* Results.                                                                *)
(***************************************************************************)
Issue(msg, field, count) ==
  [msg |-> msg, field |-> field, count |-> count, lo |-> 0, hi |-> 0,
   expected |-> "", actual |-> "", values |-> <<>>]

Result(name, issues, detail, n) ==
  [test_name |-> name,
   status |-> IF issues = <<>> THEN "PASSED" ELSE "FAILED",
   issues |-> issues,
   details |-> [text |-> detail, n |-> n]]

\* value: what the check returns, len(issues) == 0
Returned(r) == [raised |-> FALSE, result |-> r, value |-> r.issues = <<>>]
Raised == [raised |-> TRUE, result |-> Result("", <<>>, "", 0), value |-> FALSE]

(***************************************************************************)
(* check_data_types                                                        *)
(***************************************************************************)
expected_types ==
  << <<"age", "int64">>, <<"job", "object">>, <<"marital", "object">>,
     <<"education", "object">>, <<"default", "object">>, <<"housing", "object">>,
     <<"loan", "object">>, <<"contact", "object">>, <<"month", "object">>,
     <<"day_of_week", "object">>, <<"duration", "int64">>, <<"campaign", "int64">>,
     <<"pdays", "int64">>, <<"previous", "int64">>, <<"poutcome", "object">>,
     <<"emp_var_rate", "float64">>, <<"cons_price_idx", "float64">>,
     <<"cons_conf_idx", "float64">>, <<"euribor3m", "float64">>,
     <<"nr_employed", "float64">>, <<"y", "object">> >>

\* a column of the type table that the frame lacks reported as a mismatch
TypeIssues_missing(df) ==
  LET F[i \in 0..Len(expected_types)] ==
        IF i = 0 THEN <<>>
        ELSE LET col == expected_types[i][1]
                 expected_type == expected_types[i][2]
             IN IF col \notin df.columns
                THEN Append(F[i-1],
                            [Issue("type mismatch", col, 0) EXCEPT
                               !.expected = expected_type, !.actual = "missing"])
                ELSE IF dtype(df, col) # expected_type
                THEN Append(F[i-1],
                            [Issue("type mismatch", col, 0) EXCEPT
                               !.expected = expected_type,
                               !.actual = dtype(df, col)])
                ELSE F[i-1]
  IN F[Len(expected_types)]

TypeIssues(df) ==
  LET F[i \in 0..Len(expected_types)] ==
        IF i = 0 THEN <<>>
        ELSE LET col == expected_types[i][1]
                 expected_type == expected_types[i][2]
             IN IF col \in df.columns /\ dtype(df, col) # expected_type
                THEN Append(F[i-1],
                            [Issue("type mismatch", col, 0) EXCEPT
                               !.expected = expected_type,
                               !.actual = dtype(df, col)])
                ELSE F[i-1]
  IN F[Len(expected_types)]

check_data_types(df) ==
  Returned(Result("Data Types Check", TypeIssues(df),
                  "Checked columns", Len(expected_types)))

(***************************************************************************)
(* check_null_values                                                       *)
(***************************************************************************)
\* every numeric column taken as required
required_fields_numeric ==
  <<"age", "job", "marital", "education", "duration", "campaign", "pdays",
    "previous", "y">>

required_fields ==
  <<"age", "job", "marital", "education", "duration", "campaign", "y">>

null_count(df, field) == CountRows(df, LAMBDA r : r[field].k = "null")

NullIssues(df) ==
  LET F[i \in 0..Len(required_fields)] ==
        IF i = 0 THEN <<>>
        ELSE LET field == required_fields[i]
             IN IF field \in df.columns /\ null_count(df, field) > 0
                THEN Append(F[i-1],
                            Issue("null values", field, null_count(df, field)))
                ELSE F[i-1]
  IN F[Len(required_fields)]

check_null_values(df) ==
  Returned(Result("Null Values Check", NullIssues(df),
                  "Checked required fields", Len(required_fields)))

(***************************************************************************)
(* check_value_ranges                                                      *)
(***************************************************************************)
range_checks ==
  << [field |-> "age", min_val |-> 18, max_val |-> 95],
     [field |-> "duration", min_val |-> 0, max_val |-> 5000],
     [field |-> "campaign", min_val |-> 1, max_val |-> 100],
     [field |-> "pdays", min_val |-> -1, max_val |-> 1000],
     [field |-> "previous", min_val |-> 0, max_val |-> 10] >>

\* the bounds taken as exclusive: a value equal to min or max is flagged
OutOfRange_exclusive(v, min_val, max_val) == Le(v, min_val) \/ Ge(v, max_val)

\* (df[field] < min_val) | (df[field] > max_val), for one cell
OutOfRange(v, min_val, max_val) == Lt(v, min_val) \/ Gt(v, max_val)

out_of_range(df, rc) ==
  CountRows(df, LAMBDA r : OutOfRange(r[rc.field], rc.min_val, rc.max_val))

RangeIssues(df) ==
  LET F[i \in 0..Len(range_checks)] ==
        IF i = 0 THEN <<>>
        ELSE LET rc == range_checks[i]
             IN IF rc.field \in df.columns /\ out_of_range(df, rc) > 0
                THEN Append(F[i-1],
                            [Issue("values outside range", rc.field,
                                   out_of_range(df, rc)) EXCEPT
                               !.lo = rc.min_val, !.hi = rc.max_val])
                ELSE F[i-1]
  IN F[Len(range_checks)]

RangesRaise(df) ==
  \E i \in 1..Len(range_checks) :
     /\ range_checks[i].field \in df.columns
     /\ OrderingRaises(df, range_checks[i].field)

check_value_ranges(df) ==
  IF RangesRaise(df) THEN Raised
  ELSE Returned(Result("Value Ranges Check", RangeIssues(df),
                       "Checked numeric fields", Len(range_checks)))

(***************************************************************************)
(* check_accepted_values                                                   *)
(***************************************************************************)
accepted_values ==
  << [field |-> "job",
      accepted |-> {"admin.", "blue-collar", "entrepreneur", "housemaid",
                    "management", "retired", "self-employed", "services",
                    "student", "technician", "unemployed", "unknown"}],
     [field |-> "marital",
      accepted |-> {"divorced", "married", "single", "unknown"}],
     [field |-> "education",
      accepted |-> {"basic.4y", "basic.6y", "basic.9y", "high.school",
                    "illiterate", "professional.course", "university.degree",
                    "unknown"}],
     [field |-> "default", accepted |-> {"no", "unknown", "yes"}],
     [field |-> "housing", accepted |-> {"no", "unknown", "yes"}],
     [field |-> "loan", accepted |-> {"no", "unknown", "yes"}],
     [field |-> "contact", accepted |-> {"cellular", "telephone"}],
     [field |-> "month",
      accepted |-> {"jan", "feb", "mar", "apr", "may", "jun", "jul", "aug",
                    "sep", "oct", "nov", "dec"}],
     [field |-> "day_of_week", accepted |-> {"mon", "tue", "wed", "thu", "fri"}],
     [field |-> "poutcome", accepted |-> {"failure", "nonexistent", "success"}],
     [field |-> "y", accepted |-> {"no", "yes"}] >>

\* df[field].isin(accepted), for one cell
isin(v, accepted) == v.k = "str" /\ v.s \in accepted

invalid_values(df, av) ==
  {i \in 1..Len(df.rows) : ~isin(df.rows[i][av.field], av.accepted)}

\* invalid_values without .unique(): one entry per invalid row
every_invalid(df, av) ==
  LET F[i \in 0..Len(df.rows)] ==
        IF i = 0 THEN <<>>
        ELSE LET prev == F[i-1]
             IN IF i \in invalid_values(df, av)
                THEN Append(prev, df.rows[i][av.field])
                ELSE prev
  IN F[Len(df.rows)]

\* invalid_values.unique(): the distinct invalid values, in order of
\* first appearance
unique_invalid(df, av) ==
  LET F[i \in 0..Len(df.rows)] ==
        IF i = 0 THEN <<>>
        ELSE LET prev == F[i-1]
                 v == df.rows[i][av.field]
             IN IF i \in invalid_values(df, av)
                   /\ v \notin {prev[k] : k \in 1..Len(prev)}
                THEN Append(prev, v)
                ELSE prev
  IN F[Len(df.rows)]

AcceptedIssues(df) ==
  LET F[i \in 0..Len(accepted_values)] ==
        IF i = 0 THEN <<>>
        ELSE LET av == accepted_values[i]
             IN IF av.field \in df.columns /\ invalid_values(df, av) # {}
                THEN Append(F[i-1],
                            [Issue("invalid values", av.field,
                                   Cardinality(invalid_values(df, av))) EXCEPT
                               !.values = unique_invalid(df, av)])
                ELSE F[i-1]
  IN F[Len(accepted_values)]

check_accepted_values(df) ==
  Returned(Result("Accepted Values Check", AcceptedIssues(df),
                  "Checked categorical fields", Len(accepted_values)))

(***************************************************************************)
(* check_duplicates                                                        *)
(***************************************************************************)
\* df.duplicated(keep=False).sum(): every row that has a copy
duplicate_count_all(df) ==
  Cardinality({i \in 1..Len(df.rows) :
                 \E j \in 1..Len(df.rows) : j # i /\ df.rows[j] = df.rows[i]})

\* df.duplicated().sum(): rows equal to an earlier row
duplicate_count(df) ==
  Cardinality({i \in 1..Len(df.rows) :
                 \E j \in 1..(i-1) : df.rows[j] = df.rows[i]})

\* an empty table reported as a failure
check_duplicates_nonempty(df) ==
  Returned(Result("Duplicate Records Check",
                  IF duplicate_count(df) > 0 \/ Len(df.rows) = 0
                  THEN <<Issue("duplicate records", "", duplicate_count(df))>>
                  ELSE <<>>,
                  "Total records", Len(df.rows)))

\* status and return value from duplicate_count == 0, issues from
\* duplicate_count > 0
check_duplicates(df) ==
  LET n == duplicate_count(df)
      c == Returned(Result("Duplicate Records Check",
                           IF n > 0
                           THEN <<Issue("duplicate records", "", n)>>
                           ELSE <<>>,
                           "Total records", Len(df.rows)))
  IN [c EXCEPT !.result.status = IF n = 0 THEN "PASSED" ELSE "FAILED",
               !.value = (n = 0)]

(***************************************************************************)
(* check_data_consistency                                                  *)
(***************************************************************************)
\* Regla 1: df[(df['pdays'] == -1) & (df['previous'] > 0)]
Rule1Applies(df) == "pdays" \in df.columns /\ "previous" \in df.columns
Rule1Count(df) ==
  CountRows(df, LAMBDA r : EqInt(r["pdays"], -1) /\ Gt(r["previous"], 0))

\* Regla 2: df[(df['previous'] == 0) & (df['poutcome'] != 'nonexistent')]
Rule2Applies(df) == "previous" \in df.columns /\ "poutcome" \in df.columns
Rule2Count(df) ==
  CountRows(df, LAMBDA r : EqInt(r["previous"], 0)
                             /\ NeStr(r["poutcome"], "nonexistent"))

\* Regla 3: df[df['duration'] <= 0]
Rule3Applies(df) == "duration" \in df.columns
Rule3Count(df) == CountRows(df, LAMBDA r : Le(r["duration"], 0))

ConsistencyIssues(df) ==
  LET i1 == IF Rule1Applies(df) /\ Rule1Count(df) > 0
            THEN <<Issue("pdays=-1 but previous>0", "", Rule1Count(df))>>
            ELSE <<>>
      i2 == IF Rule2Applies(df) /\ Rule2Count(df) > 0
            THEN <<Issue("previous=0 but poutcome!='nonexistent'", "",
                         Rule2Count(df))>>
            ELSE <<>>
      i3 == IF Rule3Applies(df) /\ Rule3Count(df) > 0
            THEN <<Issue("non-positive duration", "", Rule3Count(df))>>
            ELSE <<>>
  IN i1 \o i2 \o i3

\* df['duration'] read without the test that the column is there: KeyError
ConsistencyRaises_keyerror(df) ==
  \/ ~Rule3Applies(df)
  \/ Rule1Applies(df) /\ OrderingRaises(df, "previous")
  \/ Rule3Applies(df) /\ OrderingRaises(df, "duration")

ConsistencyRaises(df) ==
  \/ Rule1Applies(df) /\ OrderingRaises(df, "previous")
  \/ Rule3Applies(df) /\ OrderingRaises(df, "duration")

check_data_consistency(df) ==
  IF ConsistencyRaises(df) THEN Raised
  ELSE Returned(Result("Data Consistency Check", ConsistencyIssues(df),
                       "Checked business logic consistency", 0))

(***************************************************************************)
(* generate_quality_report.  quality_score is the exact fraction           *)
(* (passed_tests / total_tests) * 100, kept as numerator and denominator.  *)
(* The 'results' entry of the report is self.results as it stood when the  *)
(* report was returned.                                                    *)
(***************************************************************************)
Passed(res) == {i \in 1..Len(res) : res[i].status = "PASSED"}

\* the score left as a fraction, not multiplied by 100
generate_quality_report_unscaled(res) ==
  [total_tests |-> Len(res),
   passed_tests |-> Cardinality(Passed(res)),
   failed_tests |-> Len(res) - Cardinality(Passed(res)),
   quality_score |-> IF Len(res) > 0
                     THEN [num |-> Cardinality(Passed(res)), den |-> Len(res)]
                     ELSE [num |-> 0, den |-> 1],
   results |-> res]

generate_quality_report(res) ==
  LET total_tests == Len(res)
      passed_tests == Cardinality(Passed(res))
      failed_tests == total_tests - passed_tests
  IN [total_tests |-> total_tests,
      passed_tests |-> passed_tests,
      failed_tests |-> failed_tests,
      quality_score |-> IF total_tests > 0
                        THEN [num |-> passed_tests * 100, den |-> total_tests]
                        ELSE [num |-> 0, den |-> 1],
      results |-> res]

(***************************************************************************)
(* run: fetch, then the six checks in order, then the report.  An          *)
(* exception of the fetch or of a check ends the run there; what the       *)
(* earlier checks appended to self.results stays.                          *)
(***************************************************************************)
check_names ==
  <<"check_data_types", "check_null_values", "check_value_ranges",
    "check_accepted_values", "check_duplicates", "check_data_consistency">>

\* the accepted-values check called before the value-range check
CheckAt_swapped(i, df) ==
  CASE i = 1 -> check_data_types(df)
    [] i = 2 -> check_null_values(df)
    [] i = 3 -> check_accepted_values(df)
    [] i = 4 -> check_value_ranges(df)
    [] i = 5 -> check_duplicates(df)
    [] i = 6 -> check_data_consistency(df)

CheckAt(i, df) ==
  CASE i = 1 -> check_data_types(df)
    [] i = 2 -> check_null_values(df)
    [] i = 3 -> check_value_ranges(df)
    [] i = 4 -> check_accepted_values(df)
    [] i = 5 -> check_duplicates(df)
    [] i = 6 -> check_data_consistency(df)

\* the checks after a FAILED one skipped
RunChecks_stop(df, res) ==
  LET F[i \in 0..Len(check_names)] ==
        IF i = 0 THEN [res |-> res, done |-> 0, raised |-> FALSE]
        ELSE LET prev == F[i-1]
                 c == CheckAt(i, df)
             IN IF prev.raised THEN prev
                ELSE IF prev.done < i - 1 THEN prev
                ELSE IF c.raised THEN [prev EXCEPT !.raised = TRUE]
                ELSE [res |-> Append(prev.res, c.result),
                      done |-> IF c.result.status = "FAILED" THEN i - 1 ELSE i,
                      raised |-> FALSE]
  IN F[Len(check_names)]

\* the checks of one run over df, starting from the list res:
\* done = number of checks that returned, raised = a check raised
RunChecks(df, res) ==
  LET F[i \in 0..Len(check_names)] ==
        IF i = 0 THEN [res |-> res, done |-> 0, raised |-> FALSE]
        ELSE LET prev == F[i-1]
                 c == CheckAt(i, df)
             IN IF prev.raised THEN prev
                ELSE IF c.raised THEN [prev EXCEPT !.raised = TRUE]
                ELSE [res |-> Append(prev.res, c.result),
                      done |-> i, raised |-> FALSE]
  IN F[Len(check_names)]

NoReport == generate_quality_report(<<>>)

\* report['results'] is the list self.results itself, not a copy: what a
\* Report's results list holds now is what self.results holds now
report_results(report) == results

NoCall ==
  [op |-> "none", fetched |-> FALSE, outcome |-> "none", done |-> 0,
   report |-> NoReport]

\* the ingestion pipeline before its first run: no step called, nothing
\* written to the warehouse
NoPipeline ==
  [pc |-> "idle", calls |-> <<>>, ret |-> "none", nruns |-> 0,
   valid |-> "none", failed |-> "none", cleanup_failed |-> FALSE,
   dataset_exists |-> FALSE, lookup |-> "none", call_creates |-> 0,
   created |-> 0, loads |-> 0, writes |-> 0]

\* the cloud functions before an invocation
NoInvocation ==
  [op |-> "none", status |-> "none", http |-> 0, notifications |-> <<>>,
   steps |-> <<>>, raised |-> FALSE, quality_score |-> [num |-> 0, den |-> 1]]

Init ==
  /\ table \in Tables
  /\ results = <<>>
  /\ reports = <<>>
  /\ last = NoCall
  /\ runs = 0
  /\ pipeline = NoPipeline
  /\ cloud = NoInvocation

EmptyFrame == [columns |-> {}, rows |-> <<>>]

\* the exception logged and an empty frame returned in its place
get_data_from_bigquery_swallow(query_ok) ==
  [raised |-> FALSE, df |-> IF query_ok THEN table ELSE EmptyFrame]

\* get_data_from_bigquery: the table, or the exception of the query re-raised
get_data_from_bigquery(query_ok) ==
  [raised |-> ~query_ok, df |-> IF query_ok THEN table ELSE EmptyFrame]

\* run(): fetch_ok is whether the warehouse answers the query.  runs counts
\* the runs that went past the fetch.
run(fetch_ok) ==
  LET fetch == get_data_from_bigquery(fetch_ok)
      rc == RunChecks(fetch.df, results)
      report == generate_quality_report(rc.res)
  IN /\ UNCHANGED <<table, pipeline, cloud>>
     /\ IF fetch.raised
        THEN /\ last' = [op |-> "run", fetched |-> fetch_ok,
                         outcome |-> "raised", done |-> 0,
                         report |-> NoReport]
             /\ UNCHANGED <<results, reports, runs>>
        ELSE /\ runs < MaxRuns
             /\ runs' = runs + 1
             /\ results' = rc.res
             /\ IF rc.raised
                THEN /\ last' = [op |-> "run", fetched |-> fetch_ok,
                                 outcome |-> "raised", done |-> rc.done,
                                 report |-> NoReport]
                     /\ UNCHANGED reports
                ELSE /\ last' = [op |-> "run", fetched |-> fetch_ok,
                                 outcome |-> "returned", done |-> rc.done,
                                 report |-> report]
                     /\ reports' = Append(reports, report)

Run == \E fetch_ok \in BOOLEAN : run(fetch_ok)

\* generate_quality_report called on its own
GenerateReport ==
  /\ last' = [op |-> "generate_quality_report", fetched |-> FALSE,
              outcome |-> "returned", done |-> 0,
              report |-> generate_quality_report(results)]
  /\ UNCHANGED <<table, results, reports, runs, pipeline, cloud>>

Next == Run \/ GenerateReport

Spec == Init /\ [][Next]_vars

(***************************************************************************)
(* A caller of the public check methods: the six checks called one by one  *)
(* on a fresh checker over the same frame, each once, in any order, and    *)
(* generate_quality_report after them.                                     *)
(***************************************************************************)
test_names ==
  <<"Data Types Check", "Null Values Check", "Value Ranges Check",
    "Accepted Values Check", "Duplicate Records Check",
    "Data Consistency Check">>

OrderRows ==
  {BaseRow} \cup
  {[BaseRow EXCEPT ![d[1]] = d[2]] :
     d \in {<<"age", IntV(17)>>, <<"age", StrV("x")>>, <<"duration", IntV(0)>>,
            <<"previous", IntV(-1)>>, <<"poutcome", StrV("other")>>}}

OrderTables ==
  {t \in Tables : /\ t.columns = ModelCols
                  /\ Len(t.rows) <= MaxOrderRows
                  /\ \A i \in 1..Len(t.rows) : t.rows[i] \in OrderRows}

InitOrder ==
  /\ table \in OrderTables
  /\ results = <<>>
  /\ reports = <<>>
  /\ last = NoCall
  /\ runs = 0
  /\ pipeline = NoPipeline
  /\ cloud = NoInvocation

Called(i) == \E k \in 1..Len(results) : results[k].test_name = test_names[i]

\* self.results = [result] in place of self.results.append(result)
call_check_reset(i) ==
  LET c == CheckAt(i, table)
  IN /\ ~Called(i)
     /\ results' = IF c.raised THEN results ELSE <<c.result>>
     /\ last' = [op |-> check_names[i], fetched |-> FALSE,
                  outcome |-> IF c.raised THEN "raised"
                              ELSE IF c.value THEN "True" ELSE "False",
                  done |-> 0, report |-> NoReport]
     /\ UNCHANGED <<table, reports, runs, pipeline, cloud>>

\* one check method called with the frame: its Result appended to
\* self.results and its boolean returned, or its exception
call_check(i) ==
  LET c == CheckAt(i, table)
  IN /\ ~Called(i)
     /\ results' = IF c.raised THEN results ELSE Append(results, c.result)
     /\ last' = [op |-> check_names[i], fetched |-> FALSE,
                  outcome |-> IF c.raised THEN "raised"
                              ELSE IF c.value THEN "True" ELSE "False",
                  done |-> 0, report |-> NoReport]
     /\ UNCHANGED <<table, reports, runs, pipeline, cloud>>

CallCheck == \E i \in 1..Len(check_names) : call_check(i)

ReportAfterChecks == Len(results) = Len(check_names) /\ GenerateReport

NextOrder == CallCheck \/ ReportAfterChecks

SpecOrder == InitOrder /\ [][NextOrder]_vars

(***************************************************************************)
(* main of quality_checks.py: a fresh checker, one run, the process exit   *)
(* code.  sys.exit(0) raises SystemExit, which 'except Exception' lets     *)
(* through; every Exception of the constructor, of run or of the printing  *)
(* ends in sys.exit(1).  fetch_ok covers the warehouse client and query.   *)
(***************************************************************************)
main_exit(fetch_ok) ==
  LET fetch == get_data_from_bigquery(fetch_ok)
      rc == RunChecks(fetch.df, <<>>)
  IN IF fetch.raised \/ rc.raised THEN "exit 1" ELSE "exit 0"

Main ==
  \E fetch_ok \in BOOLEAN :
     LET fetch == get_data_from_bigquery(fetch_ok)
         rc == RunChecks(fetch.df, <<>>)
         returned == ~fetch.raised /\ ~rc.raised
     IN /\ last.op = "none"
        /\ results' = IF fetch.raised THEN <<>> ELSE rc.res
        /\ reports' = IF returned THEN <<generate_quality_report(rc.res)>>
                       ELSE <<>>
        /\ last' = [op |-> "main", fetched |-> fetch_ok,
                     outcome |-> main_exit(fetch_ok),
                     done |-> IF fetch.raised THEN 0 ELSE rc.done,
                     report |-> IF returned THEN generate_quality_report(rc.res)
                                ELSE NoReport]
        /\ UNCHANGED <<table, runs, pipeline, cloud>>

NextMain == Main

SpecMain == Init /\ [][NextMain]_vars

(***************************************************************************)
(* BankMarketingDataIngestion.validate_data                                *)
(* (src/scripts/data_ingestion.py), over the downloaded frame.             *)
(***************************************************************************)
critical_columns ==
  {"age", "job", "marital", "education", "default", "housing", "loan",
   "contact", "month", "day_of_week", "duration", "campaign", "pdays",
   "previous", "poutcome", "y"}

\* df[col].between(lo, hi).all()
BetweenAll(df, col, lo, hi) ==
  \A i \in 1..Len(df.rows) : Ge(df.rows[i][col], lo) /\ Le(df.rows[i][col], hi)

\* (df[col] >= lo).all()
GeAll(df, col, lo) == \A i \in 1..Len(df.rows) : Ge(df.rows[i][col], lo)

validations(df) ==
  [total_rows |-> Len(df.rows) > 0,
   has_columns |-> critical_columns \subseteq df.columns,
   age_range |-> IF "age" \in df.columns THEN BetweenAll(df, "age", 18, 95)
                 ELSE TRUE,
   duration_positive |-> IF "duration" \in df.columns
                         THEN GeAll(df, "duration", 0) ELSE TRUE,
   campaign_positive |-> IF "campaign" \in df.columns
                         THEN GeAll(df, "campaign", 1) ELSE TRUE,
   no_duplicates |-> duplicate_count(df) = 0]

ValidationRaises(df) ==
  \E col \in {"age", "duration", "campaign"} \cap df.columns :
     OrderingRaises(df, col)

\* the optional validations only logged: critical ones decide
validate_data(df) ==
  LET v == validations(df)
      failed_critical == ~v.total_rows \/ ~v.has_columns
      failed_optional == ~v.age_range \/ ~v.duration_positive
                           \/ ~v.campaign_positive \/ ~v.no_duplicates
  IN IF ValidationRaises(df) THEN "raised"
     ELSE IF failed_critical THEN "False"
     ELSE "True"

\* the frames handed to validate_data: rows of the sample data with at
\* most one cell changed (an age that did not parse as a number among the
\* changes), all sixteen columns or all but one
IngestBaseRow ==
  [age |-> IntV(25), job |-> StrV("admin."), marital |-> StrV("married"),
   education |-> StrV("university.degree"), default |-> StrV("no"),
   housing |-> StrV("yes"), loan |-> StrV("no"), contact |-> StrV("cellular"),
   month |-> StrV("may"), day_of_week |-> StrV("mon"), duration |-> IntV(261),
   campaign |-> IntV(1), pdays |-> IntV(-1), previous |-> IntV(0),
   poutcome |-> StrV("nonexistent"), y |-> StrV("no")]

IngestDeviations ==
  << <<"age", IntV(17)>>, <<"age", IntV(18)>>, <<"age", IntV(95)>>,
     <<"age", IntV(100)>>, <<"age", StrV("x")>>,
     <<"duration", IntV(-10)>>, <<"duration", IntV(0)>>,
     <<"campaign", IntV(0)>> >>

IngestRowAt(d) ==
  IF d = 0 THEN IngestBaseRow
  ELSE [IngestBaseRow EXCEPT ![IngestDeviations[d][1]] = IngestDeviations[d][2]]

IngestRowSeqs ==
  UNION {{[i \in 1..n |-> IngestRowAt(t[i])] :
            t \in {u \in [1..n -> 0..Len(IngestDeviations)] :
                      \A i \in 1..(n-1) : u[i] <= u[i+1]}} :
         n \in 0..MaxRows}

IngestColumnSets ==
  {critical_columns} \cup {critical_columns \ {c} : c \in critical_columns}

IngestFrames ==
  {[columns |-> cs, rows |-> [i \in 1..Len(rs) |-> Project(rs[i], cs)]] :
     cs \in IngestColumnSets, rs \in IngestRowSeqs}

InitIngest ==
  /\ table \in IngestFrames
  /\ results = <<>>
  /\ reports = <<>>
  /\ last = NoCall
  /\ runs = 0
  /\ pipeline = NoPipeline
  /\ cloud = NoInvocation

ValidateData ==
  /\ last.op = "none"
  /\ last' = [op |-> "validate_data", fetched |-> FALSE,
               outcome |-> validate_data(table), done |-> 0,
               report |-> NoReport]
  /\ UNCHANGED <<table, results, reports, runs, pipeline, cloud>>

NextIngest == ValidateData

SpecIngest == InitIngest /\ [][NextIngest]_vars

(***************************************************************************)
(* BankMarketingDataIngestion.run, one action per pipeline step.           *)
(* pipeline.pc is the step run() is about to call, calls the steps called  *)
(* in this run, ret what run() returned.  The warehouse (dataset_exists,   *)
(* created, loads) outlives a run.                                         *)
(***************************************************************************)
PipelineFrames == {f \in IngestFrames : Len(f.rows) <= 1}

InitPipeline ==
  /\ table \in PipelineFrames
  /\ results = <<>>
  /\ reports = <<>>
  /\ last = NoCall
  /\ runs = 0
  /\ pipeline \in {[NoPipeline EXCEPT !.dataset_exists = b] : b \in BOOLEAN}
  /\ cloud = NoInvocation

\* the step called after a step that returned, in the try block of run()
NextPc_load_first(step) ==
  CASE step = "download_data" -> "validate_data"
    [] step = "validate_data" -> "load_to_bigquery"
    [] step = "load_to_bigquery" -> "create_dataset"
    [] step = "create_dataset" -> "cleanup"

NextPc(step) ==
  CASE step = "download_data" -> "validate_data"
    [] step = "validate_data" -> "create_dataset"
    [] step = "create_dataset" -> "load_to_bigquery"
    [] step = "load_to_bigquery" -> "cleanup"

\* a step called: it returned (on to the next step) or an exception left
\* the try block for the except clause
Called_step(step, raised) ==
  [pipeline EXCEPT !.calls = Append(@, step),
                   !.pc = IF raised THEN "except" ELSE NextPc(step),
                   !.failed = IF raised THEN step ELSE @]

StartIngestion ==
  /\ pipeline.pc = "idle"
  /\ pipeline.nruns < MaxIngestRuns
  /\ pipeline' = [pipeline EXCEPT !.pc = "download_data", !.calls = <<>>,
                                  !.ret = "none", !.valid = "none",
                                  !.failed = "none", !.writes = 0,
                                  !.lookup = "none", !.call_creates = 0,
                                  !.cleanup_failed = FALSE,
                                  !.nruns = @ + 1]
  /\ UNCHANGED <<table, results, reports, last, runs, cloud>>

\* download_data returns the frame or re-raises the exception of the
\* request, the archive or the parser
DownloadData ==
  \E download_ok \in BOOLEAN :
     /\ pipeline.pc = "download_data"
     /\ pipeline' = Called_step("download_data", ~download_ok)
     /\ UNCHANGED <<table, results, reports, last, runs, cloud>>

\* a False validation continues as if it had been True
ValidateStep_ignore ==
  /\ pipeline.pc = "validate_data"
  /\ LET v == validate_data(table)
     IN pipeline' = [Called_step("validate_data", v = "raised")
                       EXCEPT !.valid = v]
  /\ UNCHANGED <<table, results, reports, last, runs, cloud>>

\* if not self.validate_data(df): raise ValueError
ValidateStep ==
  /\ pipeline.pc = "validate_data"
  /\ LET v == validate_data(table)
     IN pipeline' = [Called_step("validate_data", v # "True")
                       EXCEPT !.valid = v]
  /\ UNCHANGED <<table, results, reports, last, runs, cloud>>

\* the create call made without looking the dataset up
create_dataset_unconditional(exists, lookup_ok, create_ok) ==
  [raised |-> ~create_ok, lookup |-> "none", create_calls |-> 1,
   exists |-> exists \/ create_ok,
   created |-> IF create_ok /\ ~exists THEN 1 ELSE 0]

\* create_dataset: get_dataset answers (lookup_ok) with the dataset or
\* with NotFound, or raises something else; NotFound alone leads to the
\* create call, whose exception propagates
create_dataset(exists, lookup_ok, create_ok) ==
  IF ~lookup_ok
  THEN [raised |-> TRUE, lookup |-> "error", create_calls |-> 0,
        exists |-> exists, created |-> 0]
  ELSE IF exists
  THEN [raised |-> FALSE, lookup |-> "found", create_calls |-> 0,
        exists |-> TRUE, created |-> 0]
  ELSE [raised |-> ~create_ok, lookup |-> "not_found", create_calls |-> 1,
        exists |-> create_ok, created |-> IF create_ok THEN 1 ELSE 0]

CreateDataset ==
  \E lookup_ok \in BOOLEAN, create_ok \in BOOLEAN :
     LET c == create_dataset(pipeline.dataset_exists, lookup_ok, create_ok)
     IN /\ pipeline.pc = "create_dataset"
        /\ pipeline' = [Called_step("create_dataset", c.raised)
                          EXCEPT !.dataset_exists = c.exists,
                                 !.lookup = c.lookup,
                                 !.call_creates = c.create_calls,
                                 !.created = @ + c.created,
                                 !.writes = @ + c.create_calls]
        /\ UNCHANGED <<table, results, reports, last, runs, cloud>>

\* load_to_bigquery: the load job sent to the warehouse; its exception
\* re-raised
LoadToBigquery ==
  \E load_ok \in BOOLEAN :
     /\ pipeline.pc = "load_to_bigquery"
     /\ pipeline' = [Called_step("load_to_bigquery", ~load_ok)
                       EXCEPT !.loads = IF load_ok THEN @ + 1 ELSE @,
                              !.writes = @ + 1]
     /\ UNCHANGED <<table, results, reports, last, runs, cloud>>

\* the exception of the file removal re-raised
cleanup_reraise(files_ok) == [raised |-> ~files_ok, failed |-> ~files_ok]

\* cleanup: the exception of the file removal logged as a warning
cleanup(files_ok) == [raised |-> FALSE, failed |-> ~files_ok]

\* cleanup at the end of the try block, then return True; an exception
\* of cleanup would reach the except clause
CleanupAfterLoad ==
  \E files_ok \in BOOLEAN :
     LET c == cleanup(files_ok)
     IN /\ pipeline.pc = "cleanup"
        /\ pipeline' = [pipeline EXCEPT
                          !.calls = Append(@, "cleanup"),
                          !.cleanup_failed = c.failed,
                          !.pc = IF c.raised THEN "except" ELSE "idle",
                          !.failed = IF c.raised THEN "cleanup" ELSE @,
                          !.ret = IF c.raised THEN @ ELSE "True"]
        /\ UNCHANGED <<table, results, reports, last, runs, cloud>>

\* except Exception: cleanup, then return False; an exception of cleanup
\* would leave run()
HandleException ==
  \E files_ok \in BOOLEAN :
     LET c == cleanup(files_ok)
     IN /\ pipeline.pc = "except"
        /\ pipeline' = [pipeline EXCEPT
                          !.calls = Append(@, "cleanup"),
                          !.cleanup_failed = c.failed,
                          !.pc = "idle",
                          !.ret = IF c.raised THEN "raised" ELSE "False"]
        /\ UNCHANGED <<table, results, reports, last, runs, cloud>>

NextPipeline ==
  \/ StartIngestion
  \/ DownloadData
  \/ ValidateStep
  \/ CreateDataset
  \/ LoadToBigquery
  \/ CleanupAfterLoad
  \/ HandleException

SpecPipeline == InitPipeline /\ [][NextPipeline]_vars

(***************************************************************************)
(* The HTTP functions of src/scripts/cloud_functions/main.py.  cloud holds *)
(* the last invocation: the steps it called, the notifications it asked    *)
(* send_notification for, and its response.  The environment of an         *)
(* invocation: NOTIFICATION_TYPE, whether SLACK_WEBHOOK and GITHUB_TOKEN   *)
(* are set, whether the HTTP posts succeed.  The functions keep no state   *)
(* between invocations, so one invocation per behaviour is followed.       *)
(***************************************************************************)
NotificationTypes == {"email", "slack", "other"}

\* send_slack_notification: posts when the webhook is set; its exception
\* is logged, not raised
send_slack_notification(webhook, post_ok) ==
  [raised |-> FALSE, delivered |-> webhook /\ post_ok]

\* send_email_notification: pass
send_email_notification == [raised |-> FALSE, delivered |-> FALSE]

\* the exception of the Slack post reaching the caller
send_notification_reraise(kind, notification_type, webhook, post_ok) ==
  [kind |-> kind, channel |-> notification_type,
   delivered |-> notification_type = "slack" /\ webhook /\ post_ok,
   raised |-> notification_type = "slack" /\ webhook /\ ~post_ok]

\* send_notification: one attempt over the configured channel; never raises
send_notification(kind, notification_type, webhook, post_ok) ==
  LET sent == IF notification_type = "email" THEN send_email_notification
              ELSE IF notification_type = "slack"
              THEN send_slack_notification(webhook, post_ok)
              ELSE [raised |-> FALSE, delivered |-> FALSE]
  IN [kind |-> kind, channel |-> notification_type,
      delivered |-> sent.delivered, raised |-> sent.raised]

FunctionTables == {t \in Tables : t.columns = ModelCols}

InitFunctions ==
  /\ table \in FunctionTables
  /\ results = <<>>
  /\ reports = <<>>
  /\ last = NoCall
  /\ runs = 0
  /\ pipeline = NoPipeline
  /\ cloud = NoInvocation

\* no alert whatever the score
quality_alert_never(report) == FALSE

\* report['quality_score'] < 95
quality_alert(report) ==
  report.quality_score.num < 95 * report.quality_score.den

\* data_quality_check: a fresh checker, its run, the alert, the response;
\* any exception gives the error response
DataQualityCheck ==
  \E fetch_ok \in BOOLEAN, notification_type \in NotificationTypes,
     webhook \in BOOLEAN, post_ok \in BOOLEAN :
     LET fetch == get_data_from_bigquery(fetch_ok)
         rc == RunChecks(fetch.df, <<>>)
         report == generate_quality_report(rc.res)
         n == send_notification("quality alert", notification_type,
                                webhook, post_ok)
         run_raised == fetch.raised \/ rc.raised
         alert == ~run_raised /\ quality_alert(report)
         raised == run_raised \/ (alert /\ n.raised)
     IN /\ cloud.op = "none"
        /\ cloud' = [op |-> "data_quality_check",
                      status |-> IF raised THEN "error" ELSE "success",
                      http |-> IF raised THEN 500 ELSE 200,
                      notifications |-> IF alert THEN <<n>> ELSE <<>>,
                      steps |-> IF alert THEN <<"run", "send_notification">>
                                ELSE <<"run">>,
                      raised |-> raised,
                      quality_score |-> IF raised THEN [num |-> 0, den |-> 1]
                                        ELSE report.quality_score]
        /\ UNCHANGED <<table, results, reports, last, runs, pipeline>>

\* bank_marketing_trigger: the workflow dispatch when GITHUB_TOKEN is set,
\* the local pipeline (which only logs), the success notification; an
\* exception on the way leads to the failure notification and the error
\* response
BankMarketingTrigger ==
  \E github_token \in BOOLEAN, workflow_ok \in BOOLEAN,
     notification_type \in NotificationTypes,
     webhook \in BOOLEAN, post_ok \in BOOLEAN :
     LET workflow_raised == github_token /\ ~workflow_ok
         ok == send_notification("success", notification_type, webhook, post_ok)
         ko == send_notification("failure", notification_type, webhook, post_ok)
         tried == (IF github_token THEN <<"trigger_github_workflow">> ELSE <<>>)
                    \o (IF workflow_raised THEN <<>>
                        ELSE <<"execute_local_pipeline", "send_notification">>)
         raised == workflow_raised \/ ok.raised
     IN /\ cloud.op = "none"
        /\ cloud' = [op |-> "bank_marketing_trigger",
                      status |-> IF raised THEN "error" ELSE "success",
                      http |-> IF raised THEN 500 ELSE 200,
                      notifications |->
                         (IF workflow_raised THEN <<>> ELSE <<ok>>)
                           \o (IF raised THEN <<ko>> ELSE <<>>),
                      steps |-> IF raised THEN Append(tried, "send_notification")
                                ELSE tried,
                      raised |-> raised,
                      quality_score |-> [num |-> 0, den |-> 1]]
        /\ UNCHANGED <<table, results, reports, last, runs, pipeline>>

NextFunctions == DataQualityCheck \/ BankMarketingTrigger

SpecFunctions == InitFunctions /\ [][NextFunctions]_vars

(***************************************************************************)
(* Properties.  They are stated over what the checker left in its state:   *)
(* the Results in self.results, the Reports run returned, and the outcome  *)
(* of the last call.                                                       *)
(***************************************************************************)
ScoreIs(report, n) == report.quality_score.num = n * report.quality_score.den

SameScore(r1, r2) ==
  r1.quality_score.num * r2.quality_score.den
    = r2.quality_score.num * r1.quality_score.den

\* the cells of a column of the fetched table
Cells(col) == {table.rows[i][col] : i \in 1..Len(table.rows)}

\* the rows of the fetched table that satisfy P
RowsWhere(P(_)) == {i \in 1..Len(table.rows) : P(table.rows[i])}

\* C1: every Report that run returns has total_tests = 6, on every call of
\* run on a checker.
C1_EveryRunSixTests ==
  \A i \in 1..Len(reports) : reports[i].total_tests = 6

\* C2: two runs over the same table return Reports with the same
\* total_tests, passed_tests, failed_tests, quality_score and results.
C2_RunIdempotent ==
  \A i, j \in 1..Len(reports) :
     /\ reports[i].total_tests = reports[j].total_tests
     /\ reports[i].passed_tests = reports[j].passed_tests
     /\ reports[i].failed_tests = reports[j].failed_tests
     /\ SameScore(reports[i], reports[j])
     /\ Len(reports[i].results) = Len(reports[j].results)
     /\ reports[i].results = reports[j].results

\* C3: the Report of generate_quality_report counts the accumulated
\* results: total_tests is their number, passed_tests the number of PASSED
\* ones, failed_tests the rest, and quality_score is
\* passed_tests / total_tests * 100, or 0 when there are no results.
C3_ReportOfResults ==
  last.outcome = "returned" =>
    LET r == last.report
        passed == Cardinality({i \in 1..Len(results) :
                                 results[i].status = "PASSED"})
    IN /\ r.total_tests = Len(results)
       /\ r.passed_tests = passed
       /\ r.failed_tests = Len(results) - passed
       /\ r.quality_score.den > 0
       /\ IF Len(results) = 0
          THEN ScoreIs(r, 0)
          ELSE r.quality_score.num * Len(results)
                 = passed * 100 * r.quality_score.den

C3_Witness ==
  /\ last.op = "generate_quality_report"
  /\ last.report.total_tests = 6
  /\ last.report.passed_tests = 4
  /\ last.report.quality_score.num * 3 = 200 * last.report.quality_score.den

\* C4: a run whose fetch succeeded returns a Report after all six checks,
\* whatever the table holds.
C4_FetchedRunReturns ==
  (last.op = "run" /\ last.fetched) =>
     (last.outcome = "returned" /\ last.done = 6)

\* C5: a run whose fetch fails raises, returns no Report, executes no
\* check and leaves self.results (empty on a fresh checker) as it was.
C5_FetchFailureStep ==
  (last'.op = "run" /\ ~last'.fetched) =>
     /\ last'.outcome = "raised"
     /\ last'.done = 0
     /\ last'.report = NoReport
     /\ results' = results
     /\ reports' = reports
     /\ (runs = 0 => results' = <<>>)

C5_FetchFailure == [][C5_FetchFailureStep]_vars

C5_Witness ==
  /\ last.op = "run" /\ ~last.fetched /\ last.outcome = "raised"
  /\ runs = 1 /\ Len(results) = 6 /\ Len(reports) = 1

(***************************************************************************)
(* The configuration as the properties state it.                           *)
(***************************************************************************)
TestNames ==
  <<"Data Types Check", "Null Values Check", "Value Ranges Check",
    "Accepted Values Check", "Duplicate Records Check",
    "Data Consistency Check">>

NumericFields == {"age", "duration", "campaign", "pdays", "previous"}

RangeMin(f) ==
  CASE f = "age" -> 18 [] f = "duration" -> 0 [] f = "campaign" -> 1
    [] f = "pdays" -> -1 [] f = "previous" -> 0

RangeMax(f) ==
  CASE f = "age" -> 95 [] f = "duration" -> 5000 [] f = "campaign" -> 100
    [] f = "pdays" -> 1000 [] f = "previous" -> 10

RequiredFields ==
  {"age", "job", "marital", "education", "duration", "campaign", "y"}

CategoricalFields ==
  {"job", "marital", "education", "default", "housing", "loan", "contact",
   "month", "day_of_week", "poutcome", "y"}

FloatFields ==
  {"emp_var_rate", "cons_price_idx", "cons_conf_idx", "euribor3m",
   "nr_employed"}

ConsistencyFields == {"pdays", "previous", "poutcome", "duration"}

\* the configured fields a check reads (the duplicate check reads whole rows)
Referenced(name) ==
  CASE name = "Data Types Check" ->
         NumericFields \cup CategoricalFields \cup FloatFields
    [] name = "Null Values Check" -> RequiredFields
    [] name = "Value Ranges Check" -> NumericFields
    [] name = "Accepted Values Check" -> CategoricalFields
    [] name = "Duplicate Records Check" -> {}
    [] name = "Data Consistency Check" -> ConsistencyFields

IssueFields(msg) ==
  CASE msg = "pdays=-1 but previous>0" -> {"pdays", "previous"}
    [] msg = "previous=0 but poutcome!='nonexistent'" -> {"previous", "poutcome"}
    [] msg = "non-positive duration" -> {"duration"}
    [] OTHER -> {}

\* C6: a configured field that is absent from the table makes no check
\* raise and gives no issue; a check all of whose fields are absent is
\* PASSED with no issues.
C6_MissingFieldTolerance ==
  /\ \A i \in 1..Len(results) :
       LET r == results[i]
       IN /\ \A k \in 1..Len(r.issues) :
               /\ r.issues[k].field # "" => r.issues[k].field \in table.columns
               /\ IssueFields(r.issues[k].msg) \subseteq table.columns
          /\ (Referenced(r.test_name) # {}
                /\ Referenced(r.test_name) \cap table.columns = {})
               => (r.status = "PASSED" /\ r.issues = <<>>)
  /\ (last.op = "run" /\ last.fetched /\ last.outcome = "raised") =>
       \E f \in Referenced(TestNames[last.done + 1]) \cap table.columns :
          \E v \in Cells(f) : v.k # "int"

C6_Witness ==
  /\ last.op = "run" /\ last.outcome = "returned" /\ Len(results) = 6
  /\ table.columns = {"age"}
  /\ IntV(17) \in Cells("age")
  /\ results[3].status = "FAILED"
  /\ results[6].status = "PASSED" /\ results[6].issues = <<>>

\* the table has nothing any rule objects to
CleanTable ==
  /\ \A f \in NumericFields \cap table.columns : \A v \in Cells(f) :
        v.k = "int" /\ RangeMin(f) <= v.n /\ v.n <= RangeMax(f)
  /\ \A v \in (IF "poutcome" \in table.columns THEN Cells("poutcome") ELSE {}) :
        v.k = "str" /\ v.s \in {"failure", "nonexistent", "success"}
  /\ \A f \in RequiredFields \cap table.columns : NullV \notin Cells(f)
  /\ \A i, j \in 1..Len(table.rows) : i # j => table.rows[i] # table.rows[j]
  /\ {"pdays", "previous"} \subseteq table.columns =>
        RowsWhere(LAMBDA r : r["pdays"] = IntV(-1) /\ r["previous"] # IntV(0)) = {}
  /\ {"previous", "poutcome"} \subseteq table.columns =>
        RowsWhere(LAMBDA r : r["previous"] = IntV(0)
                               /\ r["poutcome"] # StrV("nonexistent")) = {}

\* C7: over a table with every numeric field inside its inclusive range
\* (duration = 0 included), every categorical value accepted, no nulls in
\* required fields, no duplicate rows, conforming types and both
\* implications satisfied, run gives six PASSED checks and score 100.
C7_CleanTableAllPassed ==
  (CleanTable /\ Len(reports) >= 1) =>
     /\ reports[1].total_tests = 6
     /\ reports[1].passed_tests = 6
     /\ ScoreIs(reports[1], 100)
     /\ \A i \in 1..Len(reports[1].results) :
           reports[1].results[i].status = "PASSED"

\* the values of the field outside [min, max]
Outside(f) ==
  RowsWhere(LAMBDA r : r[f].k = "int"
                         /\ (r[f].n < RangeMin(f) \/ r[f].n > RangeMax(f)))

FieldsOutside == {f \in NumericFields \cap table.columns : Outside(f) # {}}

\* C8: the value-range Result is FAILED iff some present configured field
\* has a value strictly below its min or strictly above its max (min and
\* max themselves are in range), with one issue per such field carrying
\* the number of its out-of-range values.
C8_InclusiveRanges ==
  \A i \in 1..Len(results) :
     results[i].test_name = "Value Ranges Check" =>
        LET r == results[i]
        IN /\ (r.status = "FAILED") <=> (FieldsOutside # {})
           /\ Len(r.issues) = Cardinality(FieldsOutside)
           /\ {<<r.issues[k].field, r.issues[k].count>> : k \in 1..Len(r.issues)}
                = {<<f, Cardinality(Outside(f))>> : f \in FieldsOutside}
           /\ \A k \in 1..Len(r.issues) :
                 /\ r.issues[k].lo = RangeMin(r.issues[k].field)
                 /\ r.issues[k].hi = RangeMax(r.issues[k].field)

C8_Witness ==
  /\ Len(results) >= 3
  /\ results[3].test_name = "Value Ranges Check"
  /\ results[3].status = "FAILED"
  /\ Len(results[3].issues) = 1
  /\ results[3].issues[1].field = "age" /\ results[3].issues[1].count = 1
  /\ Cells("age") = {IntV(95), IntV(96)}

\* the records that violate 'pdays = -1 implies previous = 0'
ViolatePdays ==
  IF {"pdays", "previous"} \subseteq table.columns
  THEN RowsWhere(LAMBDA r : r["pdays"] = IntV(-1)
                              /\ r["previous"].k = "int" /\ r["previous"].n # 0)
  ELSE {}

\* the records that violate 'previous = 0 implies poutcome = nonexistent'
ViolatePrevious ==
  IF {"previous", "poutcome"} \subseteq table.columns
  THEN RowsWhere(LAMBDA r : r["previous"] = IntV(0)
                              /\ r["poutcome"] # StrV("nonexistent"))
  ELSE {}

IssueCounts(r, msg) ==
  {r.issues[k].count : k \in {n \in 1..Len(r.issues) : r.issues[n].msg = msg}}

\* C9: the consistency Result is FAILED if an implication has a violating
\* record, and each violated implication has its own issue line carrying
\* the number of records that violate it.
C9_ConsistencyCounts ==
  \A i \in 1..Len(results) :
     results[i].test_name = "Data Consistency Check" =>
        LET r == results[i]
        IN /\ (ViolatePdays # {} \/ ViolatePrevious # {}) => r.status = "FAILED"
           /\ IssueCounts(r, "pdays=-1 but previous>0")
                = IF ViolatePdays # {} THEN {Cardinality(ViolatePdays)} ELSE {}
           /\ IssueCounts(r, "previous=0 but poutcome!='nonexistent'")
                = IF ViolatePrevious # {} THEN {Cardinality(ViolatePrevious)}
                  ELSE {}

\* the rows of the table, as a set
DistinctRows == {table.rows[i] : i \in 1..Len(table.rows)}

\* C10: the duplicate Result carries the number of rows that copy an
\* earlier row (k copies of a row count k - 1), is FAILED iff that number
\* is positive, and one copy appended to a duplicate-free table gives
\* FAILED with count 1.
C10_DuplicateCount ==
  \A i \in 1..Len(results) :
     results[i].test_name = "Duplicate Records Check" =>
        LET r == results[i]
            copies == Len(table.rows) - Cardinality(DistinctRows)
            n == Len(table.rows)
        IN /\ (r.status = "FAILED") <=> (copies > 0)
           /\ r.issues = (IF copies > 0
                          THEN <<Issue("duplicate records", "", copies)>>
                          ELSE <<>>)
           /\ (/\ n >= 2
               /\ Cardinality({table.rows[k] : k \in 1..(n-1)}) = n - 1
               /\ table.rows[n] \in {table.rows[k] : k \in 1..(n-1)})
                => (r.status = "FAILED" /\ r.issues[1].count = 1)

C10_Witness ==
  /\ Len(results) >= 5
  /\ results[5].test_name = "Duplicate Records Check"
  /\ results[5].status = "FAILED"
  /\ results[5].issues[1].count = 1
  /\ Len(table.rows) = 2 /\ table.rows[1] = table.rows[2]

AcceptedSet(f) ==
  CASE f = "job" -> {"admin.", "blue-collar", "entrepreneur", "housemaid",
                     "management", "retired", "self-employed", "services",
                     "student", "technician", "unemployed", "unknown"}
    [] f = "marital" -> {"divorced", "married", "single", "unknown"}
    [] f = "education" -> {"basic.4y", "basic.6y", "basic.9y", "high.school",
                           "illiterate", "professional.course",
                           "university.degree", "unknown"}
    [] f \in {"default", "housing", "loan"} -> {"no", "unknown", "yes"}
    [] f = "contact" -> {"cellular", "telephone"}
    [] f = "month" -> {"jan", "feb", "mar", "apr", "may", "jun", "jul", "aug",
                       "sep", "oct", "nov", "dec"}
    [] f = "day_of_week" -> {"mon", "tue", "wed", "thu", "fri"}
    [] f = "poutcome" -> {"failure", "nonexistent", "success"}
    [] f = "y" -> {"no", "yes"}

\* the cells of the field that are not one of its accepted values (a
\* missing value is not one of them)
InvalidCells(f) ==
  {v \in Cells(f) : ~(v.k = "str" /\ v.s \in AcceptedSet(f))}

FieldsInvalid == {f \in CategoricalFields \cap table.columns : InvalidCells(f) # {}}

\* C11: the accepted-values Result is FAILED iff a present categorical
\* field holds a value outside its accepted set, with one issue per such
\* field that lists exactly the distinct invalid values, each once.
C11_AcceptedValues ==
  \A i \in 1..Len(results) :
     results[i].test_name = "Accepted Values Check" =>
        LET r == results[i]
        IN /\ (r.status = "FAILED") <=> (FieldsInvalid # {})
           /\ Len(r.issues) = Cardinality(FieldsInvalid)
           /\ {r.issues[k].field : k \in 1..Len(r.issues)} = FieldsInvalid
           /\ \A k \in 1..Len(r.issues) :
                 LET vs == r.issues[k].values
                 IN /\ {vs[n] : n \in 1..Len(vs)} = InvalidCells(r.issues[k].field)
                    /\ Len(vs) = Cardinality(InvalidCells(r.issues[k].field))

C11_Witness ==
  /\ Len(results) >= 4
  /\ results[4].test_name = "Accepted Values Check"
  /\ results[4].status = "FAILED"
  /\ Len(table.rows) = 2
  /\ "poutcome" \in table.columns
  /\ table.rows[1]["poutcome"] = StrV("other")
  /\ table.rows[2]["poutcome"] = StrV("other")
  /\ results[4].issues[1].values = <<StrV("other")>>

\* the required fields of the table that hold a missing value
FieldsNull == {f \in RequiredFields \cap table.columns : NullV \in Cells(f)}

\* C12: the null Result is FAILED iff a present required field holds a
\* missing value, with exactly one issue per such field carrying its
\* number of missing values; missing values of other fields change nothing.
C12_RequiredNotNull ==
  \A i \in 1..Len(results) :
     results[i].test_name = "Null Values Check" =>
        LET r == results[i]
        IN /\ (r.status = "FAILED") <=> (FieldsNull # {})
           /\ Len(r.issues) = Cardinality(FieldsNull)
           /\ {<<r.issues[k].field, r.issues[k].count>> : k \in 1..Len(r.issues)}
                = {<<f, Cardinality(RowsWhere(LAMBDA row : row[f] = NullV))>> :
                     f \in FieldsNull}

C12_Witness ==
  /\ Len(results) >= 2
  /\ results[2].test_name = "Null Values Check"
  /\ results[2].status = "FAILED"
  /\ Len(results[2].issues) = 1
  /\ results[2].issues[1].field = "duration"
  /\ results[2].issues[1].count = 1
  /\ "previous" \in table.columns
  /\ NullV \in Cells("previous")

\* C13: over a table with zero rows the value-range, accepted-values,
\* duplicate and consistency checks are PASSED with no issues, whatever
\* the columns.
C13_ZeroRows ==
  Len(table.rows) = 0 =>
     /\ (last.op = "run" /\ last.fetched) =>
           (last.outcome = "returned" /\ last.done = 6)
     /\ \A i \in 1..Len(results) :
           results[i].test_name \in
              {"Value Ranges Check", "Accepted Values Check",
               "Duplicate Records Check", "Data Consistency Check"}
             => (results[i].status = "PASSED" /\ results[i].issues = <<>>)

C13_Witness ==
  /\ Len(table.rows) = 0
  /\ table.columns = ModelCols
  /\ Len(reports) = 1
  /\ reports[1].passed_tests = 6

\* the fetched table with the age of row k set to a
WithAge(k, a) == [table EXCEPT !.rows[k]["age"] = IntV(a)]

\* all six checks return PASSED over df
AllPassedOn(df) ==
  \A i \in 1..Len(check_names) :
     ~CheckAt(i, df).raised /\ CheckAt(i, df).result.status = "PASSED"

\* C14: when the table differs from one on which all six checks pass in a
\* single age, now outside [18, 95], only the value-range Result is FAILED
\* (one issue, field age, count 1), the other five Results are those of
\* the passing table and quality_score is 5/6*100.
C14_OnlyRangeFails ==
  \A k \in 1..Len(table.rows) : \A a \in {RangeMin("age"), RangeMax("age")} :
     (/\ runs = 1
      /\ "age" \in table.columns
      /\ table.rows[k]["age"].k = "int"
      /\ (table.rows[k]["age"].n < RangeMin("age")
            \/ table.rows[k]["age"].n > RangeMax("age"))
      /\ AllPassedOn(WithAge(k, a)))
     => /\ Len(results) = 6 /\ Len(reports) = 1
        /\ results[3].status = "FAILED"
        /\ Len(results[3].issues) = 1
        /\ results[3].issues[1].field = "age"
        /\ results[3].issues[1].count = 1
        /\ \A i \in {1, 2, 4, 5, 6} : results[i] = CheckAt(i, WithAge(k, a)).result
        /\ reports[1].passed_tests = 5 /\ reports[1].failed_tests = 1
        /\ reports[1].quality_score.num * 6 = 500 * reports[1].quality_score.den

C14_Witness ==
  /\ runs = 1 /\ Len(reports) = 1
  /\ table.columns = ModelCols
  /\ Len(table.rows) = 2
  /\ table.rows[1]["age"] = IntV(18)
  /\ table.rows[2]["age"] = IntV(96)
  /\ AllPassedOn(WithAge(2, 95))
  /\ reports[1].passed_tests = 5

\* C15: a Report that run has returned keeps its total_tests, its counts,
\* its quality_score and the contents and length of its results list
\* through every later operation on the checker.
C15_ReportNeverMutated ==
  \A i \in 1..Len(reports) :
     /\ Len(report_results(reports[i])) = reports[i].total_tests
     /\ report_results(reports[i]) = reports[i].results

\* C17: the checks of a run start only after the fetch and run in the
\* order types, nulls, ranges, accepted values, duplicates, consistency:
\* the Report of a first run lists the six test names in that order.
C17_CheckOrder ==
  /\ runs = 0 => results = <<>>
  /\ runs = 1 => /\ Len(results) <= Len(TestNames)
                 /\ \A i \in 1..Len(results) : results[i].test_name = TestNames[i]
  /\ Len(reports) >= 1 =>
        [i \in 1..Len(reports[1].results) |-> reports[1].results[i].test_name]
          = TestNames

C17_Witness ==
  /\ Len(reports) = 1 /\ runs = 1 /\ Len(table.rows) = MaxRows
  /\ results[3].status = "FAILED" /\ results[4].status = "FAILED"

\* the type label the table of expected types gives a field
ExpectedLabel(f) ==
  IF f \in NumericFields THEN "int64"
  ELSE IF f \in FloatFields THEN "float64" ELSE "object"

FieldsMismatched ==
  {f \in (NumericFields \cup CategoricalFields \cup FloatFields) \cap table.columns :
     dtype(table, f) # ExpectedLabel(f)}

\* C19: the type Result compares the type label of every field that is
\* both in the table and in the table of expected types; each mismatch
\* gives one issue, the Result is FAILED iff there is a mismatch, and
\* fields missing from either side are not compared.
C19_TypeMismatches ==
  \A i \in 1..Len(results) :
     results[i].test_name = "Data Types Check" =>
        LET r == results[i]
        IN /\ (r.status = "FAILED") <=> (FieldsMismatched # {})
           /\ Len(r.issues) = Cardinality(FieldsMismatched)
           /\ {r.issues[k].field : k \in 1..Len(r.issues)} = FieldsMismatched
           /\ \A k \in 1..Len(r.issues) :
                 /\ r.issues[k].expected = ExpectedLabel(r.issues[k].field)
                 /\ r.issues[k].actual = dtype(table, r.issues[k].field)

C19_Witness ==
  /\ Len(results) >= 1
  /\ results[1].test_name = "Data Types Check"
  /\ results[1].status = "FAILED"
  /\ Len(results[1].issues) = 2
  /\ table.columns = {"age", "previous"}
  /\ {results[1].issues[k].actual : k \in 1..2} = {"object", "float64"}

\* the run of the six checks in the order of run(), on a fresh checker
Sequential == RunChecks(table, <<>>)

ResultSet(res) == {res[k] : k \in 1..Len(res)}

\* a check method was called in this step
CheckCalled == \E i \in 1..Len(check_names) : last'.op = check_names[i]

\* a returning call appends the Result its check yields in the sequential
\* order (when that order reaches the check), and six returned calls give
\* the Results, counts and score of the sequential order
OrderIndependentStep ==
  /\ (CheckCalled /\ results' # results) =>
        \E i \in 1..Len(TestNames) :
           /\ \A k \in 1..Len(results) : results[k].test_name # TestNames[i]
           /\ \E r \in ResultSet(results') :
                 /\ r.test_name = TestNames[i]
                 /\ results' = Append(results, r)
                 /\ i <= Len(Sequential.res) => r = Sequential.res[i]
  /\ Len(results) = Len(TestNames) =>
        /\ ~Sequential.raised
        /\ ResultSet(results) = ResultSet(Sequential.res)
        /\ (last'.op = "generate_quality_report") =>
              LET seq == generate_quality_report(Sequential.res)
              IN /\ last'.report.total_tests = seq.total_tests
                 /\ last'.report.passed_tests = seq.passed_tests
                 /\ last'.report.failed_tests = seq.failed_tests
                 /\ SameScore(last'.report, seq)

C18_ExitCode ==
  last.op = "main" =>
     /\ Len(reports) = 1 => last.outcome = "exit 0"
     /\ last.outcome # "exit 0" => ~last.fetched

\* C20: validate_data returns False for a frame that holds an age outside
\* [18, 95], a negative duration or a duplicate row, even when it is not
\* empty and has every required column.
C20_ValidateRejects ==
  (/\ last.op = "validate_data"
   /\ \/ "age" \in table.columns
           /\ \E v \in Cells("age") : v.k = "int" /\ (v.n < 18 \/ v.n > 95)
      \/ "duration" \in table.columns
           /\ \E v \in Cells("duration") : v.k = "int" /\ v.n < 0
      \/ Cardinality(DistinctRows) < Len(table.rows))
  => last.outcome = "False"

\* the frame has every required column, at least one row, and passes the
\* validations of age, duration, campaign and duplicates
PassesOtherValidations ==
  /\ critical_columns \subseteq table.columns
  /\ Len(table.rows) > 0
  /\ \A v \in Cells("age") : v.k = "int" /\ v.n >= 18 /\ v.n <= 95
  /\ \A v \in Cells("duration") : v.k = "int" /\ v.n >= 0
  /\ \A v \in Cells("campaign") : v.k = "int" /\ v.n >= 1
  /\ Cardinality(DistinctRows) = Len(table.rows)

\* C21: validate_data returns False, without raising, whenever one of the
\* sixteen required columns is missing, and True for a non-empty frame
\* that has them all and passes every other validation.
C21_MissingColumn ==
  last.op = "validate_data" =>
     /\ ~(critical_columns \subseteq table.columns) => last.outcome = "False"
     /\ PassesOtherValidations => last.outcome = "True"

\* a run of the ingestion pipeline has returned
Finished == pipeline.pc = "idle" /\ pipeline.nruns > 0

\* how often run() has called the step in this run
CallCount(step) ==
  Cardinality({i \in 1..Len(pipeline.calls) : pipeline.calls[i] = step})

PipelineSteps ==
  <<"download_data", "validate_data", "create_dataset", "load_to_bigquery">>

\* C22: when validate_data returns False, run returns False, calls neither
\* create_dataset nor load_to_bigquery (nothing is written to the
\* warehouse) and calls cleanup exactly once.
C22_ValidationFailure ==
  pipeline.valid = "False" =>
     /\ CallCount("create_dataset") = 0
     /\ CallCount("load_to_bigquery") = 0
     /\ pipeline.writes = 0
     /\ Finished => /\ pipeline.ret = "False"
                    /\ CallCount("cleanup") = 1

C22_Witness ==
  /\ Finished
  /\ pipeline.valid = "False"
  /\ pipeline.calls = <<"download_data", "validate_data", "cleanup">>
  /\ Len(table.rows) = 1

\* C23: run never raises: when download_data, create_dataset or
\* load_to_bigquery throws, run returns False, calls no later pipeline
\* step and calls cleanup exactly once; a failure inside cleanup is
\* swallowed and leaves the return value as it would have been.
C23_RunNeverRaises ==
  /\ pipeline.ret # "raised"
  /\ Finished =>
        /\ pipeline.ret \in {"True", "False"}
        /\ pipeline.ret = "True" <=> pipeline.failed = "none"
        /\ \A k \in {1, 3, 4} :
              pipeline.failed = PipelineSteps[k] =>
                 /\ pipeline.ret = "False"
                 /\ pipeline.calls = SubSeq(PipelineSteps, 1, k) \o <<"cleanup">>

C23_Witness ==
  /\ Finished
  /\ pipeline.failed = "load_to_bigquery"
  /\ pipeline.cleanup_failed
  /\ pipeline.ret = "False"

\* C24: on a successful run the five steps are called once each in the
\* order download_data, validate_data, create_dataset, load_to_bigquery,
\* cleanup, and run returns True; on every path cleanup is called exactly
\* once per run, as the last step.
C24_StepOrder ==
  /\ ~Finished => CallCount("cleanup") = 0
  /\ Finished =>
        /\ CallCount("cleanup") = 1
        /\ pipeline.calls[Len(pipeline.calls)] = "cleanup"
        /\ pipeline.failed = "none" =>
              /\ pipeline.ret = "True"
              /\ pipeline.calls = PipelineSteps \o <<"cleanup">>
        /\ pipeline.ret = "True" => pipeline.failed = "none"

C24_Witness ==
  /\ Finished
  /\ pipeline.ret = "True"
  /\ pipeline.loads = 1
  /\ Len(pipeline.calls) = 5

\* a step of run() called create_dataset
CreateDatasetCalled ==
  /\ Len(pipeline'.calls) = Len(pipeline.calls) + 1
  /\ pipeline'.calls[Len(pipeline'.calls)] = "create_dataset"

\* C25: create_dataset makes a create call only when the lookup reports
\* the dataset as not found: none when the dataset exists, exactly one
\* when it does not, so that repeated calls create the dataset at most
\* once.
C25_CreateOnlyWhenMissing ==
  [][CreateDatasetCalled =>
       /\ pipeline.dataset_exists => pipeline'.call_creates = 0
       /\ pipeline'.lookup = "found" <=>
             (pipeline.dataset_exists /\ pipeline'.lookup # "error")
       /\ pipeline'.lookup = "not_found" => pipeline'.call_creates = 1
       /\ pipeline'.lookup # "not_found" => pipeline'.call_creates = 0
       /\ pipeline'.created <= 1
       /\ pipeline'.created = 1 => pipeline'.dataset_exists]_vars

C25_Witness ==
  /\ pipeline.nruns = 2
  /\ pipeline.created = 1
  /\ pipeline.lookup = "found"
  /\ pipeline.call_creates = 0

\* C26: every check call appends exactly one Result and changes no
\* earlier one; the appended Result has status PASSED or FAILED, FAILED iff
\* its issues list is non-empty, and the check returns True iff the
\* Result is PASSED.
C26_OneResultPerCall ==
  [][CheckCalled =>
       /\ Len(results') = Len(results) + 1
       /\ SubSeq(results', 1, Len(results)) = results
       /\ LET r == results'[Len(results')]
          IN /\ r.status \in {"PASSED", "FAILED"}
             /\ r.status = "FAILED" <=> r.issues # <<>>
             /\ last'.outcome = "True" <=> r.status = "PASSED"
             /\ last'.outcome \in {"True", "False"}]_vars

\* the notifications of the last invocation, by kind
Notified(kind) ==
  {i \in 1..Len(cloud.notifications) : cloud.notifications[i].kind = kind}

\* C27: data_quality_check sends a quality alert iff the quality_score of
\* the report is below 95, which with six checks is iff at least one check
\* FAILED, and still answers 'success' with that score; when the run of
\* the checker raises it answers 'error' with HTTP 500 and sends no alert.
C27_QualityAlert ==
  cloud.op = "data_quality_check" =>
     /\ Len(cloud.notifications) <= 1
     /\ Len(cloud.notifications) = Cardinality(Notified("quality alert"))
     /\ cloud.raised =>
           /\ cloud.status = "error"
           /\ cloud.http = 500
           /\ cloud.notifications = <<>>
     /\ ~cloud.raised =>
           LET report == generate_quality_report(Sequential.res)
           IN /\ ~Sequential.raised
              /\ report.total_tests = 6
              /\ cloud.status = "success"
              /\ cloud.http # 500
              /\ cloud.quality_score = report.quality_score
              /\ Len(cloud.notifications) = 1 <=>
                    cloud.quality_score.num < 95 * cloud.quality_score.den
              /\ Len(cloud.notifications) = 1 <=>
                    \E i \in 1..Len(Sequential.res) :
                       Sequential.res[i].status = "FAILED"

C27_Witness ==
  /\ cloud.op = "data_quality_check"
  /\ cloud.status = "success"
  /\ Len(cloud.notifications) = 1
  /\ cloud.quality_score = [num |-> 500, den |-> 6]

\* C28: bank_marketing_trigger asks for exactly one notification per
\* invocation: the success notification after the workflow trigger and the
\* local pipeline completed, or the failure notification when a step
\* raised, the later steps skipped and the answer 'error' with HTTP 500;
\* send_notification never raises, so an undelivered notification leaves
\* the response as it is.
C28_OneNotification ==
  cloud.op = "bank_marketing_trigger" =>
     /\ Len(cloud.notifications) = 1
     /\ ~cloud.notifications[1].raised
     /\ cloud.steps[Len(cloud.steps)] = "send_notification"
     /\ ~cloud.raised =>
           /\ cloud.notifications[1].kind = "success"
           /\ cloud.status = "success"
           /\ cloud.http # 500
           /\ \E i \in 1..Len(cloud.steps) :
                 /\ cloud.steps[i] = "execute_local_pipeline"
                 /\ i + 1 = Len(cloud.steps)
                 /\ \A j \in 1..(i-1) : cloud.steps[j] = "trigger_github_workflow"
     /\ cloud.raised =>
           /\ cloud.notifications[1].kind = "failure"
           /\ cloud.status = "error"
           /\ cloud.http = 500
           /\ cloud.steps = <<"trigger_github_workflow", "send_notification">>

C28_Witness ==
  /\ cloud.op = "bank_marketing_trigger"
  /\ cloud.status = "success"
  /\ cloud.steps[1] = "trigger_github_workflow"
  /\ cloud.notifications[1].channel = "slack"
  /\ ~cloud.notifications[1].delivered

====
